---- MODULE Spec2Model ----
\* Model of src/chat.py: the Flask /chat relay endpoint (server part) and the
\* inline chat-page script sendMessage/setSending (UI part).
EXTENDS FiniteSets, Integers, Naturals, Sequences, TLC

\* ------------------------------------------------------------------
\* Bounds
\* ------------------------------------------------------------------
NumReq == 2
MaxSubmits == 2

Req == 1..NumReq

\* ------------------------------------------------------------------
\* JSON values as Flask's request.get_json() returns them.
\* A JSON string is a sequence of chunks over {"message", "x"}; Python's
\* substring test "message" in s is then exact.
\* ------------------------------------------------------------------
NoMsg == [t |-> "none", s |-> <<>>, n |-> 0]
MStr(str) == [t |-> "str", s |-> str, n |-> 0]
\* A number; s is its decimal text, the str() pydantic v1 coerces it to.
MNum(k, txt) == [t |-> "num", s |-> txt, n |-> k]
\* A list of JSON strings; s holds its single element.
MList(str) == [t |-> "list", s |-> str, n |-> 0]
MNull == [t |-> "null", s |-> <<>>, n |-> 0]

JVal(tt, str, k, es, ks, m) ==
    [t |-> tt, s |-> str, n |-> k, elems |-> es, keys |-> ks, msg |-> m]
JObj(ks, m) == JVal("obj", <<>>, 0, <<>>, ks, m)
JList(es) == JVal("list", <<>>, 0, es, {}, NoMsg)
JStr(str) == JVal("str", str, 0, <<>>, {}, NoMsg)
JNum(k) == JVal("num", <<>>, k, <<>>, {}, NoMsg)
JBool(k) == JVal("bool", <<>>, k, <<>>, {}, NoMsg)
JNull == JVal("null", <<>>, 0, <<>>, {}, NoMsg)

\* Values a client may send as the 'message' field.
Msgs == {MStr(<<"x">>), MStr(<<"message", "x">>), MStr(<<>>), MNum(5, <<"5">>),
         MList(<<"x">>), MNull}

JsonVals ==
    {JObj({}, NoMsg), JObj({"other"}, NoMsg)}
    \cup {JObj({"message"}, m) : m \in Msgs}
    \cup {JList(<<>>), JList(<<<<"message">>>>), JList(<<<<"x">>>>)}
    \cup {JStr(<<>>), JStr(<<"x", "message">>), JStr(<<"x">>)}
    \cup {JNum(0), JNum(7), JBool(0), JBool(1), JNull}

\* A POST body: no JSON content type / empty, unparsable JSON, or parsed JSON.
Bodies ==
    {[kind |-> "nojson", val |-> JNull], [kind |-> "badjson", val |-> JNull]}
    \cup {[kind |-> "json", val |-> v] : v \in JsonVals}

\* Python truthiness of the parsed value (`not data`).
Truthy(v) ==
    CASE v.t = "obj"  -> v.keys # {}
      [] v.t = "list" -> v.elems # <<>>
      [] v.t = "str"  -> v.s # <<>>
      [] v.t = "num"  -> v.n # 0
      [] v.t = "bool" -> v.n # 0
      [] v.t = "null" -> FALSE

\* Python `"message" in data`: "yes", "no", or "typeerror" (int, bool).
InMessage(v) ==
    CASE v.t = "obj"  -> IF "message" \in v.keys THEN "yes" ELSE "no"
      [] v.t = "list" -> IF \E i \in 1..Len(v.elems) : v.elems[i] = <<"message">>
                         THEN "yes" ELSE "no"
      [] v.t = "str"  -> IF \E i \in 1..Len(v.s) : v.s[i] = "message"
                         THEN "yes" ELSE "no"
      [] OTHER        -> "typeerror"

\* Responses: status, content type, JSON fields present, and their values.
NoResp == [status |-> 0, ctype |-> "none", fields |-> {}, error |-> "",
           details |-> "", user |-> NoMsg, bot |-> NoMsg]
JsonResp(st, fs, e, d, u, b) ==
    [status |-> st, ctype |-> "json", fields |-> fs, error |-> e,
     details |-> d, user |-> u, bot |-> b]
HtmlResp(st) ==
    [status |-> st, ctype |-> "html", fields |-> {}, error |-> "",
     details |-> "", user |-> NoMsg, bot |-> NoMsg]

MissingResp == JsonResp(400, {"error"}, "Missing 'message' field", "", NoMsg, NoMsg)

\* request.get_json() on a body that is not JSON-typed, per Werkzeug release:
\* < 2.1 returns None; 2.1-2.2 raise BadRequest; >= 2.3 raise UnsupportedMediaType.
NoJsonOutcomes == {"none", "400", "415"}

\* Mutant: 'bot' echoes the user's message instead of the reply.
ChatResponseSwapped(m, r) == JsonResp(200, {"user", "bot"}, "", "", m, m)

\* jsonify({"user": user_message, "bot": response.content})
ChatResponse(m, r) == JsonResp(200, {"user", "bot"}, "", "", m, r)

\* Mutant: details dropped from the error body.
FailResponseNoDetails(d) ==
    JsonResp(500, {"error"}, "LLM request failed", "", NoMsg, NoMsg)

\* jsonify({"error": "LLM request failed", "details": str(e)}), 500
FailResponse(d) ==
    JsonResp(500, {"error", "details"}, "LLM request failed", d, NoMsg, NoMsg)

\* str(e) of exceptions llm.invoke may raise; Exception() stringifies to "".
ExcStrs == {"", "Connection error."}
\* str(e) of the ValidationError HumanMessage raises on content that is
\* neither a str nor a list: pydantic v2 reports one error per union member;
\* pydantic v1 reports a single "none is not an allowed value" error.
ValidationStrV2 == "2 validation errors for HumanMessage"
ValidationStrV1 == "1 validation error for HumanMessage"

\* pydantic major version under langchain_core (< 0.3: v1, >= 0.3: v2).
PydanticVersions == {"v1", "v2"}

\* HumanMessage(content=m): "ok" when m is accepted as content (a str or a
\* list always; a number only under v1, which coerces it to its str()),
\* otherwise the str() of the ValidationError raised.
HumanMessageCheck(m, ver) ==
    CASE m.t \in {"str", "list"}    -> "ok"
      [] m.t = "num" /\ ver = "v1" -> "ok"
      [] ver = "v1"                 -> ValidationStrV1
      [] OTHER                      -> ValidationStrV2
\* The content HumanMessage holds for an accepted message m: m itself (a str
\* or a list); a number as pydantic v1 coerces it, to its str().
Content(m) == IF m.t = "num" THEN MStr(m.s) ELSE m

\* Reply contents (response.content) the provider may return.
Replies == {MStr(<<"x">>), MStr(<<>>)}

\* Upstream outcomes: a reply text or an exception with its str().
UpOutcomes == {[kind |-> "ok", reply |-> r, exc |-> ""] : r \in Replies}
              \cup {[kind |-> "raise", reply |-> NoMsg, exc |-> e] : e \in ExcStrs}
NoUp == [kind |-> "none", reply |-> NoMsg, exc |-> ""]

VARIABLES body, pc, umsg, ncalls, upres, resp, echo

srvvars == <<body, pc, umsg, ncalls, upres, resp, echo>>

\* chat(), lines 149-153: get_json, validation, data["message"].
Parse(i) ==
    /\ pc[i] = "recv"
    /\ LET b == body[i] IN
       IF b.kind = "badjson"
       THEN /\ resp' = [resp EXCEPT ![i] = HtmlResp(400)]
            /\ pc' = [pc EXCEPT ![i] = "done"]
            /\ UNCHANGED umsg
       ELSE IF b.kind = "nojson"
       THEN \E o \in NoJsonOutcomes :
              /\ resp' = [resp EXCEPT ![i] =
                            IF o = "none" THEN MissingResp
                            ELSE IF o = "400" THEN HtmlResp(400) ELSE HtmlResp(415)]
              /\ pc' = [pc EXCEPT ![i] = "done"]
              /\ UNCHANGED umsg
       ELSE LET v == b.val IN
            IF ~Truthy(v)
            THEN /\ resp' = [resp EXCEPT ![i] = MissingResp]
                 /\ pc' = [pc EXCEPT ![i] = "done"]
                 /\ UNCHANGED umsg
            ELSE IF InMessage(v) = "typeerror"
            THEN /\ resp' = [resp EXCEPT ![i] = HtmlResp(500)]
                 /\ pc' = [pc EXCEPT ![i] = "done"]
                 /\ UNCHANGED umsg
            ELSE IF InMessage(v) = "no"
            THEN /\ resp' = [resp EXCEPT ![i] = MissingResp]
                 /\ pc' = [pc EXCEPT ![i] = "done"]
                 /\ UNCHANGED umsg
            \* data["message"] on a list or a str raises TypeError, uncaught
            ELSE IF v.t # "obj"
            THEN /\ resp' = [resp EXCEPT ![i] = HtmlResp(500)]
                 /\ pc' = [pc EXCEPT ![i] = "done"]
                 /\ UNCHANGED umsg
            ELSE /\ umsg' = [umsg EXCEPT ![i] = v.msg]
                 /\ pc' = [pc EXCEPT ![i] = "call"]
                 /\ UNCHANGED resp
    /\ UNCHANGED <<body, ncalls, upres, echo>>

\* chat(), lines 155-157: HumanMessage(content=...) then llm.invoke starts.
CallStart(i) ==
    /\ pc[i] = "call"
    /\ \E ver \in PydanticVersions :
       LET chk == HumanMessageCheck(umsg[i], ver) IN
       IF chk # "ok"
       THEN /\ resp' = [resp EXCEPT ![i] = FailResponse(chk)]
            /\ pc' = [pc EXCEPT ![i] = "done"]
            /\ UNCHANGED ncalls
       ELSE /\ ncalls' = [ncalls EXCEPT ![i] = @ + 1]
            /\ pc' = [pc EXCEPT ![i] = "wait"]
            /\ UNCHANGED resp
    /\ UNCHANGED <<body, umsg, upres, echo>>

\* Mutant: the handler reads the message of whichever request called last
\* (a shared module-level variable) when it builds the call and response.
CallReturnShared(i) ==
    /\ pc[i] = "wait"
    /\ \E j \in Req :
         /\ pc[j] \in {"wait", "done"} /\ umsg[j].t = "str"
         /\ \E u \in IF echo THEN {[kind |-> "ok", reply |-> Content(umsg[j]), exc |-> ""]}
                     ELSE UpOutcomes :
              /\ upres' = [upres EXCEPT ![i] = u]
              /\ resp' = [resp EXCEPT ![i] =
                            IF u.kind = "ok" THEN ChatResponse(umsg[j], u.reply)
                            ELSE FailResponse(u.exc)]
              /\ pc' = [pc EXCEPT ![i] = "done"]
    /\ UNCHANGED <<body, umsg, ncalls, echo>>

\* chat(), lines 157-164: llm.invoke returns or raises; the response is built.
CallReturn(i) ==
    /\ pc[i] = "wait"
    /\ \E u \in IF echo THEN {[kind |-> "ok", reply |-> Content(umsg[i]), exc |-> ""]}
                ELSE UpOutcomes :
         /\ upres' = [upres EXCEPT ![i] = u]
         /\ resp' = [resp EXCEPT ![i] =
                       IF u.kind = "ok" THEN ChatResponse(umsg[i], u.reply)
                       ELSE FailResponse(u.exc)]
         /\ pc' = [pc EXCEPT ![i] = "done"]
    /\ UNCHANGED <<body, umsg, ncalls, echo>>

SrvNext == \E i \in Req : Parse(i) \/ CallStart(i) \/ CallReturn(i)

\* ------------------------------------------------------------------
\* Server properties
\* ------------------------------------------------------------------
\* A body with no JSON object carrying a 'message' key.
Malformed(b) ==
    \/ b.kind # "json"
    \/ ~(b.val.t = "obj" /\ "message" \in b.val.keys)

\* A JSON object whose 'message' is a string.
WellFormed(b) ==
    /\ b.kind = "json"
    /\ b.val.t = "obj"
    /\ "message" \in b.val.keys
    /\ b.val.msg.t = "str"

\* C1 (as stated): every malformed POST /chat (missing body, unparsable JSON,
\* JSON without 'message') gets 400 {"error": "Missing 'message' field"} and
\* the LLM client is not called.
C1_Claim ==
    \A i \in Req : (pc[i] = "done" /\ Malformed(body[i]))
                   => (resp[i] = MissingResp /\ ncalls[i] = 0)

\* C2: a request {"message": m} whose upstream call returns r gets 200 with
\* {"user": m, "bot": r}.
C2_ChatSuccess ==
    \A i \in Req : (pc[i] = "done" /\ upres[i].kind = "ok")
        => resp[i] = JsonResp(200, {"user", "bot"}, "", "",
                              body[i].val.msg, upres[i].reply)

C2_Witness ==
    \E i \in Req : pc[i] = "done" /\ upres[i].kind = "ok" /\ upres[i].reply # MStr(<<>>)
                   /\ ~echo

\* C3 (as stated): when the upstream call raises, the response is 500 with
\* error "LLM request failed" and a non-empty details equal to str(e).
C3_Claim ==
    \A i \in Req : (pc[i] = "done" /\ upres[i].kind = "raise")
        => /\ resp[i].status = 500
           /\ resp[i].error = "LLM request failed"
           /\ resp[i].details = upres[i].exc
           /\ resp[i].details # ""

\* C3 (amended): when the upstream call raises, the response is 500 with
\* error "LLM request failed" and details equal to str(e), which may be empty.
C3_Amended ==
    \A i \in Req : (pc[i] = "done" /\ upres[i].kind = "raise")
        => /\ resp[i].status = 500
           /\ resp[i].ctype = "json"
           /\ resp[i].fields = {"error", "details"}
           /\ resp[i].error = "LLM request failed"
           /\ resp[i].details = upres[i].exc

C3_Witness ==
    \E i \in Req : pc[i] = "done" /\ upres[i].kind = "raise" /\ upres[i].exc = ""

\* C4 (as stated): every completed request has exactly one of a bot reply
\* (200 with 'bot') or a JSON error (400/500 with 'error').
C4_Claim ==
    \A i \in Req : pc[i] = "done" =>
        \/ /\ resp[i].status = 200 /\ resp[i].ctype = "json"
           /\ "bot" \in resp[i].fields /\ "error" \notin resp[i].fields
        \/ /\ resp[i].status \in {400, 500} /\ resp[i].ctype = "json"
           /\ "error" \in resp[i].fields /\ "bot" \notin resp[i].fields

\* C5: with an echoing upstream client, concurrent well-formed requests each
\* get 200 with 'user' and 'bot' equal to their own message.
C5_NoLeak ==
    echo => \A i \in Req : (pc[i] = "done" /\ WellFormed(body[i]))
              => /\ resp[i].status = 200
                 /\ resp[i].user = body[i].val.msg
                 /\ resp[i].bot = body[i].val.msg

C5_Witness ==
    /\ echo
    /\ \A i \in Req : pc[i] = "done" /\ WellFormed(body[i])
    /\ body[1].val.msg # body[2].val.msg

\* C6 (as stated): each request calls the LLM client at most once: once if
\* well-formed ('message' is a string), never if not; no retry.
C6_Claim ==
    \A i \in Req : /\ ncalls[i] <= 1
                   /\ pc[i] = "done" => ncalls[i] = IF WellFormed(body[i]) THEN 1 ELSE 0

\* ------------------------------------------------------------------
\* Chat page script (HTML template, lines 66-137)
\* ------------------------------------------------------------------
Chars == {" ", "a"}
MaxInputLen == 2
\* Values the textarea can hold.
Inputs == UNION {[1..k -> Chars] : k \in 0..MaxInputLen}

RECURSIVE TrimLeft(_)
TrimLeft(str) ==
    IF str # <<>> /\ Head(str) = " " THEN TrimLeft(Tail(str)) ELSE str
RECURSIVE TrimRight(_)
TrimRight(str) ==
    IF str # <<>> /\ str[Len(str)] = " "
    THEN TrimRight(SubSeq(str, 1, Len(str) - 1)) ELSE str
\* String.prototype.trim
Trim(str) == TrimRight(TrimLeft(str))

RECURSIVE ToStr(_)
ToStr(str) == IF str = <<>> THEN "" ELSE Head(str) \o ToStr(Tail(str))

\* Mutant: setSending leaves the controls enabled.
SetSendingNoop(isSending) == FALSE

\* setSending(isSending): the value given to sendBtn.disabled / inputEl.disabled.
SetSending(isSending) == isSending

\* How a fetch('/chat') settles: rejected (net), or a response with res.ok,
\* a body that is a JSON object (with bot/error/details, "" = absent or
\* falsy), the JSON literal null, or not JSON at all.
Outcomes ==
    [net : BOOLEAN, ok : BOOLEAN, body : {"obj", "null", "nonjson"},
     bot : {"", "hi"}, error : {"", "E"}, details : {"", "D"}]

\* The text of the one bubble sendMessage appends after the fetch settles
\* (lines 102-118); a TypeError/SyntaxError thrown in the try goes to catch.
ReplyText(o) ==
    IF o.net THEN "Network error: Failed to fetch"
    ELSE IF ~o.ok
    THEN IF o.body = "null"
         THEN "Network error: Cannot read properties of null (reading 'error')"
         ELSE IF o.body = "nonjson" THEN "Error: unknown"
         ELSE "Error: " \o (IF o.error # "" THEN o.error
                            ELSE IF o.details # "" THEN o.details
                            ELSE "Request failed")
    ELSE IF o.body = "nonjson" THEN "Network error: Unexpected token"
    ELSE IF o.body = "null"
    THEN "Network error: Cannot read properties of null (reading 'bot')"
    ELSE IF o.bot # "" THEN o.bot
    ELSE IF o.error # "" THEN "Error: " \o o.error
    ELSE "No response from server."

Submits == 1..MaxSubmits
NoCall == [pc |-> "none", text |-> "", userIdx |-> 0]

VARIABLES inputVal, disabled, sendLabel, bubbles, calls, nsub

uivars == <<inputVal, disabled, sendLabel, bubbles, calls, nsub>>

\* The user edits the textarea (a disabled textarea takes no input).
Type ==
    /\ ~disabled
    /\ \E v \in Inputs : v # inputVal /\ inputVal' = v
    /\ UNCHANGED <<disabled, sendLabel, bubbles, calls, nsub>>

\* Mutant: the input is not trimmed before the emptiness test.
SendMessageNoTrim ==
    /\ ~disabled
    /\ nsub < MaxSubmits
    /\ IF inputVal = <<>>
       THEN UNCHANGED uivars
       ELSE /\ bubbles' = Append(bubbles,
                 [who |-> "user", text |-> ToStr(inputVal), call |-> nsub + 1])
            /\ inputVal' = <<>>
            /\ disabled' = SetSending(TRUE)
            /\ sendLabel' = IF SetSending(TRUE) THEN "Sending..." ELSE "Send"
            /\ calls' = [calls EXCEPT ![nsub + 1] =
                   [pc |-> "fetch", text |-> ToStr(inputVal),
                    userIdx |-> Len(bubbles) + 1]]
            /\ nsub' = nsub + 1

\* A click on Send or Ctrl+Enter runs sendMessage up to its first await
\* (lines 88-100); a disabled button / textarea delivers no event.
SendMessage ==
    /\ ~disabled
    /\ nsub < MaxSubmits
    /\ LET text == Trim(inputVal) IN
       IF text = <<>>
       THEN UNCHANGED uivars
       ELSE /\ bubbles' = Append(bubbles,
                 [who |-> "user", text |-> ToStr(text), call |-> nsub + 1])
            /\ inputVal' = <<>>
            /\ disabled' = SetSending(TRUE)
            /\ sendLabel' = IF SetSending(TRUE) THEN "Sending..." ELSE "Send"
            /\ calls' = [calls EXCEPT ![nsub + 1] =
                   [pc |-> "fetch", text |-> ToStr(text),
                    userIdx |-> Len(bubbles) + 1]]
            /\ nsub' = nsub + 1

\* Mutant: no finally; only the success path re-enables the controls.
SettleNoFinally(k) ==
    /\ calls[k].pc = "fetch"
    /\ \E o \in Outcomes :
         /\ bubbles' = Append(bubbles, [who |-> "bot", text |-> ReplyText(o), call |-> k])
         /\ disabled' = IF ~o.net /\ o.ok /\ o.body = "obj" THEN SetSending(FALSE) ELSE disabled
         /\ sendLabel' = IF disabled' THEN "Sending..." ELSE "Send"
         /\ calls' = [calls EXCEPT ![k].pc = "done"]
    /\ UNCHANGED <<inputVal, nsub>>

\* Mutant: the non-ok branch lacks its return and falls through to a second
\* res.json(), which rejects (body already read) into the catch.
SettleNoReturn(k) ==
    /\ calls[k].pc = "fetch"
    /\ \E o \in Outcomes :
         /\ bubbles' =
              IF ~o.net /\ ~o.ok /\ o.body # "null"
              THEN bubbles \o <<[who |-> "bot", text |-> ReplyText(o), call |-> k],
                                [who |-> "bot", text |-> "Network error: body used already",
                                 call |-> k]>>
              ELSE Append(bubbles, [who |-> "bot", text |-> ReplyText(o), call |-> k])
         /\ disabled' = SetSending(FALSE)
         /\ sendLabel' = IF SetSending(FALSE) THEN "Sending..." ELSE "Send"
         /\ calls' = [calls EXCEPT ![k].pc = "done"]
    /\ UNCHANGED <<inputVal, nsub>>

\* The fetch of call k settles and sendMessage runs to its end (lines 100-121).
Settle(k) ==
    /\ calls[k].pc = "fetch"
    /\ \E o \in Outcomes :
         /\ bubbles' = Append(bubbles, [who |-> "bot", text |-> ReplyText(o), call |-> k])
         /\ disabled' = SetSending(FALSE)
         /\ sendLabel' = IF SetSending(FALSE) THEN "Sending..." ELSE "Send"
         /\ calls' = [calls EXCEPT ![k].pc = "done"]
    /\ UNCHANGED <<inputVal, nsub>>

UINext == Type \/ SendMessage \/ \E k \in Submits : Settle(k)

vars == <<srvvars, uivars>>

\* The server handling concurrent POST /chat requests; the page stays idle.
SrvSpecInit ==
    /\ body \in [Req -> Bodies]
    /\ pc = [i \in Req |-> "recv"]
    /\ umsg = [i \in Req |-> NoMsg]
    /\ ncalls = [i \in Req |-> 0]
    /\ upres = [i \in Req |-> NoUp]
    /\ resp = [i \in Req |-> NoResp]
    /\ echo \in BOOLEAN
    /\ inputVal = <<>>
    /\ disabled = FALSE
    /\ sendLabel = "Send"
    /\ bubbles = <<>>
    /\ calls = [k \in Submits |-> NoCall]
    /\ nsub = 0

SrvSpec == SrvSpecInit /\ [][SrvNext /\ UNCHANGED uivars]_vars

\* No request has reached the server (the page's requests are not modelled
\* on the server side).
UISpecInit ==
    /\ inputVal = <<>>
    /\ disabled = FALSE
    /\ sendLabel = "Send"
    /\ bubbles = <<>>
    /\ calls = [k \in Submits |-> NoCall]
    /\ nsub = 0
    /\ body = [i \in Req |-> [kind |-> "nojson", val |-> JNull]]
    /\ pc = [i \in Req |-> "recv"]
    /\ umsg = [i \in Req |-> NoMsg]
    /\ ncalls = [i \in Req |-> 0]
    /\ upres = [i \in Req |-> NoUp]
    /\ resp = [i \in Req |-> NoResp]
    /\ echo = FALSE

\* One chat page driven by the user.
UISpec == UISpecInit /\ [][UINext /\ UNCHANGED srvvars]_vars

\* ------------------------------------------------------------------
\* Chat page properties
\* ------------------------------------------------------------------
InFlight == {k \in Submits : calls[k].pc = "fetch"}

\* C7: once no request is in flight, the input and the send button are
\* enabled again (label "Send"), whatever the fetch settled with.
C7_ReEnabled ==
    InFlight = {} => (~disabled /\ sendLabel = "Send")

C7_Witness ==
    /\ nsub = MaxSubmits
    /\ InFlight = {}
    /\ \E j \in 1..Len(bubbles) :
          bubbles[j].text = "Network error: Failed to fetch"

\* C8: each submission's user bubble is appended when its POST is issued,
\* and once the request settles exactly one more bubble (reply or error)
\* for it is appended, after that user bubble.
C8_OneReplyAfterUser ==
    \A k \in Submits : calls[k].pc # "none" =>
        LET U == {j \in 1..Len(bubbles) : bubbles[j].call = k /\ bubbles[j].who = "user"}
            B == {j \in 1..Len(bubbles) : bubbles[j].call = k /\ bubbles[j].who = "bot"}
        IN /\ U = {calls[k].userIdx}
           /\ bubbles[calls[k].userIdx].text = calls[k].text
           /\ Cardinality(B) = IF calls[k].pc = "done" THEN 1 ELSE 0
           /\ \A j \in B : j > calls[k].userIdx

C8_Witness ==
    /\ \A k \in Submits : calls[k].pc = "done"
    /\ \E j \in 1..Len(bubbles) : bubbles[j].text = "Error: unknown"

\* C9: at most one /chat request from the page is in flight at any time.
C9_AtMostOneInFlight ==
    Cardinality(InFlight) <= 1

C9_Witness ==
    /\ calls[1].pc = "done"
    /\ calls[2].pc = "fetch"

\* C10: submitting empty or whitespace-only input changes nothing: no bubble,
\* no POST, same sending state and input value.
C10_EmptyNoop ==
    [][(SendMessage /\ Trim(inputVal) = <<>>) => UNCHANGED uivars]_vars

C10_Witness ==
    /\ ~disabled
    /\ nsub < MaxSubmits
    /\ inputVal # <<>>
    /\ Trim(inputVal) = <<>>
    /\ bubbles # <<>>

====
